---- MODULE Spec2Model ----
(***************************************************************************)
(* Presence and typing-indicator coordinator of server.js: the connection  *)
(* registry userSocketMap, the typing state typingUsers with its expiry    *)
(* timers, and the four handlers (connection, typing, stopTyping,          *)
(* disconnect) plus the setTimeout callback.  Node runs every handler and  *)
(* every timer callback to completion on one thread, so each is one atomic *)
(* action; the handlers of different connections and the callbacks         *)
(* interleave freely.                                                      *)
(***************************************************************************)
EXTENDS Integers, Sequences, FiniteSets, TLC

\* ---------------------------------------------------------------- bounds
\* Number of connections ever established (socket ids are 1..MaxSockets).
MaxSockets == 3
\* Number of setTimeout calls ever made (timer ids are 1..MaxTimers).
MaxTimers == 2

\* ------------------------------------------------------------- constants
\* The user identities a handshake or a payload may carry.
Users == {"u1", "u2", "u3"}
\* A handshake without userId / a payload without receiverId (undefined).
NoUser == "undefined"
\* userSocketMap[x] of a key that is not stored (undefined).
NoSocket == 0
\* typingUsers[x]?.timeout of a key that is not stored (undefined).
NoTimer == 0
\* typingUsers[x] of a key that is not stored (undefined).
NoSignal == [typingTo |-> NoUser, timeout |-> NoTimer]

SocketIds == 1..MaxSockets
TimerIds == 1..MaxTimers

VARIABLES
    sockets,        \* socket id -> [status, userId]: the connection and the
                    \* userId its handlers close over (while it is open)
    userSocketMap,  \* userId -> socket id, NoSocket when the key is absent
    typingUsers,    \* userId -> [typingTo, timeout], NoSignal when absent
    timers,         \* timer id -> the timer: its state, the userId and
                    \* receiverId its callback closes over (while pending),
                    \* and the history of the signal it guards
    emits,          \* what the last handler emitted, in order
    last,           \* the last handler that ran: the userId it closes over,
                    \* the receiverId it read (`a && b` does not read b
                    \* when a is falsy), the signal it found stored for
                    \* userId and the timer it set or ran
    lastOp          \* userId -> the last registration or unregistration
                    \* event of that identity, and the socket id of its
                    \* last registration

vars == <<sockets, userSocketMap, typingUsers, timers, emits, last, lastOp>>

\* ------------------------------------------------------------- helpers
\* Mutant of Truthy: the handlers do not test the userId.
TruthyAlways(u) == TRUE

\* `if (userId)`, `userId && receiverId`: undefined is falsy.
Truthy(u) == u # NoUser

\* The connections that are established and not yet disconnected.
OpenSockets(ss) == {s \in SocketIds : ss[s].status = "open"}

\* The next socket id the transport hands out.
NextSocket == Cardinality({s \in SocketIds : sockets[s].status # "new"}) + 1

\* The id the next setTimeout call returns.
NextTimer == Cardinality({t \in TimerIds : timers[t].state # "unset"}) + 1

\* Object.keys(userSocketMap)
Keys(map) == {u \in Users : map[u] # NoSocket}

\* Mutant of Register: the first registration of a userId wins.
RegisterFirstWins(map, userId, sid) ==
    IF Truthy(userId) /\ map[userId] = NoSocket
    THEN [map EXCEPT ![userId] = sid]
    ELSE map

\* if(userId) userSocketMap[userId] = socket.id;
Register(map, userId, sid) ==
    IF Truthy(userId) THEN [map EXCEPT ![userId] = sid] ELSE map

\* Mutant of Unregister: the disconnect handler forgets the delete.
UnregisterForgotten(map, userId) == map

\* delete userSocketMap[userId];
Unregister(map, userId) ==
    IF userId \in Users THEN [map EXCEPT ![userId] = NoSocket] ELSE map

\* Mutant of DeleteSignal: the stored signal is left in place.
DeleteSignalForgotten(tu, userId) == tu

\* delete typingUsers[userId];
DeleteSignal(tu, userId) ==
    IF userId \in Users THEN [tu EXCEPT ![userId] = NoSignal] ELSE tu

\* typingUsers[userId] (undefined for a key that is not stored)
Signal(tu, userId) == IF userId \in Users THEN tu[userId] ELSE NoSignal

\* userSocketMap[receiverId] (undefined for a key that is not stored)
Lookup(map, receiverId) ==
    IF receiverId \in Users THEN map[receiverId] ELSE NoSocket

\* A timer that is no longer scheduled: it fired or it was cleared, and its
\* callback is dropped.
DoneTimer ==
    [state |-> "done", userId |-> NoUser, receiverId |-> NoUser,
     notified |-> FALSE]

\* Mutant of ClearTimeout: the cancellation has no effect.
ClearTimeoutIgnored(tm, t) == tm

\* clearTimeout(t): a pending timer is cancelled for good, anything else is
\* left as it is.
ClearTimeout(tm, t) ==
    IF t \in TimerIds /\ tm[t].state = "pending"
    THEN [tm EXCEPT ![t] = DoneTimer]
    ELSE tm

\* Mutant of Broadcast: the list goes to the registered handles only.
BroadcastToRegistered(map, open) ==
    [event |-> "getOnlineUsers", room |-> NoSocket,
     to |-> {map[u] : u \in Keys(map)} \cap open,
     receiverId |-> NoUser, userId |-> NoUser, ids |-> Keys(map)]

\* io.emit("getOnlineUsers", Object.keys(userSocketMap)): to every open
\* connection.
Broadcast(map, open) ==
    [event |-> "getOnlineUsers", room |-> NoSocket, to |-> open,
     receiverId |-> NoUser, userId |-> NoUser, ids |-> Keys(map)]

\* Mutant of EmitTo: the event goes to every open connection of receiverId.
EmitToEveryConnection(event, receiverSocketId, receiverId, userId, open) ==
    [event |-> event, room |-> receiverSocketId,
     to |-> {s \in open : sockets[s].userId = receiverId},
     receiverId |-> receiverId, userId |-> userId, ids |-> {}]

\* io.to(receiverSocketId).emit(event, { userId }): to the room of that
\* socket id, which holds the socket while it is open.  receiverId is the
\* key the socket id was looked up under.
EmitTo(event, receiverSocketId, receiverId, userId, open) ==
    [event |-> event, room |-> receiverSocketId,
     to |-> {receiverSocketId} \cap open, receiverId |-> receiverId,
     userId |-> userId, ids |-> {}]

\* if (receiverSocketId) io.to(receiverSocketId).emit(event, { userId })
EmitIfOnline(event, map, receiverId, userId, open) ==
    IF Lookup(map, receiverId) # NoSocket
    THEN <<EmitTo(event, Lookup(map, receiverId), receiverId, userId, open)>>
    ELSE <<>>

\* The rank of an identity in the order identities first connect in.
Ord(u) == CASE u = "u1" -> 1 [] u = "u2" -> 2 [] OTHER -> 3

UnsetTimer ==
    [state |-> "unset", userId |-> NoUser, receiverId |-> NoUser,
     notified |-> FALSE]

\* ---------------------------------------------------------------- Init
Init ==
    /\ sockets = [s \in SocketIds |-> [status |-> "new", userId |-> NoUser]]
    /\ userSocketMap = [u \in Users |-> NoSocket]
    /\ typingUsers = [u \in Users |-> NoSignal]
    /\ timers = [t \in TimerIds |-> UnsetTimer]
    /\ emits = <<>>
    /\ last = [kind |-> "init", userId |-> NoUser, receiverId |-> NoUser,
               found |-> NoSignal, timer |-> NoTimer]
    /\ lastOp = [u \in Users |-> [op |-> "none", socket |-> NoSocket]]

\* ------------------------------------------------------------- actions
\* The handlers treat every identity alike, so of the behaviours that differ
\* only by a renaming of the identities one is kept: the one in which the
\* identities connect for the first time in the order u1, u2, u3.  Payloads
\* name any identity, connected or not.
FirstConnectsInOrder(userId) ==
    userId \in Users =>
        \A v \in Users : Ord(v) < Ord(userId) => lastOp[v].op # "none"

\* io.on("connection", (socket) => ...) with handshake.query.userId
Connection(userId) ==
    /\ NextSocket \in SocketIds
    /\ FirstConnectsInOrder(userId)
    /\ LET s == NextSocket
           ss == [sockets EXCEPT ![s] = [status |-> "open", userId |-> userId]]
           map == Register(userSocketMap, userId, s)
       IN /\ sockets' = ss
          /\ userSocketMap' = map
          /\ emits' = <<Broadcast(map, OpenSockets(ss))>>
          /\ last' = [kind |-> "connection", userId |-> userId,
                      receiverId |-> NoUser, found |-> NoSignal,
                      timer |-> NoTimer]
          /\ lastOp' = IF userId \in Users
                       THEN [lastOp EXCEPT ![userId] =
                                [op |-> "register", socket |-> s]]
                       ELSE lastOp
    /\ UNCHANGED <<typingUsers, timers>>

\* The timer the typing handler installs: setTimeout(() => ..., 3000)
SetTimeout(tm, t, userId, receiverId, notified) ==
    [tm EXCEPT ![t] = [state |-> "pending", userId |-> userId,
                       receiverId |-> receiverId, notified |-> notified]]

\* Mutant of ClearStored: the handler forgets to clear the stored timer.
ClearStoredForgotten(tm, signal) == tm

\* if (typingUsers[userId]?.timeout) clearTimeout(typingUsers[userId].timeout)
ClearStored(tm, signal) ==
    IF signal.timeout # NoTimer THEN ClearTimeout(tm, signal.timeout) ELSE tm

\* Mutant of TypingEmits: io.emit instead of io.to(receiverSocketId).emit.
TypingEmitsToAll(userId, receiverId) ==
    <<[event |-> "userTyping", room |-> NoSocket,
       to |-> OpenSockets(sockets), receiverId |-> receiverId,
       userId |-> userId, ids |-> {}]>>

\* The typing handler's emit: userTyping to the receiverId of the payload.
TypingEmits(userId, receiverId) ==
    EmitIfOnline("userTyping", userSocketMap, receiverId, userId,
                 OpenSockets(sockets))

\* socket.on("typing", ({ receiverId }) => ...)
Typing(s, receiverId) ==
    /\ sockets[s].status = "open"
    /\ LET userId == sockets[s].userId
       IN IF Truthy(userId) /\ Truthy(receiverId)
          THEN /\ NextTimer \in TimerIds
               /\ LET found == Signal(typingUsers, userId)
                      t == NextTimer
                      out == TypingEmits(userId, receiverId)
                  IN /\ timers' = SetTimeout(ClearStored(timers, found), t,
                                             userId, receiverId, out # <<>>)
                     /\ typingUsers' = [typingUsers EXCEPT ![userId] =
                                [typingTo |-> receiverId, timeout |-> t]]
                     /\ emits' = out
                     /\ last' = [kind |-> "typing", userId |-> userId,
                                 receiverId |-> receiverId, found |-> found,
                                 timer |-> t]
          ELSE /\ emits' = <<>>
               /\ last' = [kind |-> "typing", userId |-> userId,
                           receiverId |-> IF Truthy(userId) THEN receiverId
                                          ELSE NoUser,
                           found |-> NoSignal, timer |-> NoTimer]
               /\ UNCHANGED <<typingUsers, timers>>
    /\ UNCHANGED <<sockets, userSocketMap, lastOp>>

\* Mutant of StopTypingEmits: the handler also announces the online list.
StopTypingEmitsAndBroadcasts(userId, signal, receiverId) ==
    EmitIfOnline("userStoppedTyping", userSocketMap, receiverId, userId,
                 OpenSockets(sockets))
        \o <<Broadcast(userSocketMap, OpenSockets(sockets))>>

\* The stopTyping handler's emit: userStoppedTyping to the receiverId of the
\* payload (`signal` is the stored signal, which the handler does not read).
StopTypingEmits(userId, signal, receiverId) ==
    EmitIfOnline("userStoppedTyping", userSocketMap, receiverId, userId,
                 OpenSockets(sockets))

\* Mutant of StopTypingActs: the guard does not test the stored signal.
StopTypingActsUnguarded(userId, signal, receiverId) == Truthy(userId)

\* The stopTyping handler's guard: if (userId && typingUsers[userId])
StopTypingActs(userId, signal, receiverId) ==
    Truthy(userId) /\ signal # NoSignal

\* socket.on("stopTyping", ({ receiverId }) => ...)
StopTyping(s, receiverId) ==
    /\ sockets[s].status = "open"
    /\ LET userId == sockets[s].userId
           found == Signal(typingUsers, userId)
       IN IF StopTypingActs(userId, found, receiverId)
          THEN /\ typingUsers' = DeleteSignal(typingUsers, userId)
               /\ timers' = ClearStored(timers, found)
               /\ emits' = StopTypingEmits(userId, found, receiverId)
               /\ last' = [kind |-> "stopTyping", userId |-> userId,
                           receiverId |-> receiverId, found |-> found,
                           timer |-> NoTimer]
          ELSE /\ emits' = <<>>
               /\ last' = [kind |-> "stopTyping", userId |-> userId,
                           receiverId |-> NoUser, found |-> NoSignal,
                           timer |-> NoTimer]
               /\ UNCHANGED <<typingUsers, timers>>
    /\ UNCHANGED <<sockets, userSocketMap, lastOp>>

\* The disconnect handler's targeted emit: userStoppedTyping to the typingTo
\* of the stored signal, looked up before the registry entry is deleted.
DisconnectEmits(userId, signal, open) ==
    IF signal # NoSignal
    THEN EmitIfOnline("userStoppedTyping", userSocketMap, signal.typingTo,
                      userId, open)
    ELSE <<>>

\* socket.on("disconnect", () => ...): the socket has left its rooms when
\* the handler runs.
Disconnect(s) ==
    /\ sockets[s].status = "open"
    /\ LET userId == sockets[s].userId
           ss == [sockets EXCEPT ![s] = [status |-> "closed",
                                         userId |-> NoUser]]
           open == OpenSockets(ss)
           found == Signal(typingUsers, userId)
           map == Unregister(userSocketMap, userId)
       IN /\ sockets' = ss
          /\ typingUsers' = IF found # NoSignal
                            THEN DeleteSignal(typingUsers, userId)
                            ELSE typingUsers
          /\ timers' = IF found # NoSignal THEN ClearStored(timers, found)
                       ELSE timers
          /\ userSocketMap' = map
          /\ emits' = DisconnectEmits(userId, found, open)
                         \o <<Broadcast(map, open)>>
          /\ last' = [kind |-> "disconnect", userId |-> userId,
                      receiverId |-> NoUser, found |-> found,
                      timer |-> NoTimer]
          /\ lastOp' = IF userId \in Users
                       THEN [lastOp EXCEPT ![userId].op = "unregister"]
                       ELSE lastOp

\* Mutant of TimeoutEmits: the callback looks up the sender's own socket id.
TimeoutEmitsToSender(userId, receiverId) ==
    EmitIfOnline("userStoppedTyping", userSocketMap, userId, userId,
                 OpenSockets(sockets))

\* The callback's emit: userStoppedTyping to the receiverId the callback
\* closes over.
TimeoutEmits(userId, receiverId) ==
    EmitIfOnline("userStoppedTyping", userSocketMap, receiverId, userId,
                 OpenSockets(sockets))

\* The setTimeout callback of timer t, run by the event loop once the timer
\* is due and was not cleared.
Timeout(t) ==
    /\ timers[t].state = "pending"
    /\ LET userId == timers[t].userId
           receiverId == timers[t].receiverId
       IN /\ typingUsers' = DeleteSignal(typingUsers, userId)
          /\ timers' = [timers EXCEPT ![t] = DoneTimer]
          /\ emits' = TimeoutEmits(userId, receiverId)
          /\ last' = [kind |-> "timeout", userId |-> userId,
                      receiverId |-> receiverId,
                      found |-> Signal(typingUsers, userId), timer |-> t]
    /\ UNCHANGED <<sockets, userSocketMap, lastOp>>

Next ==
    \/ \E userId \in Users \cup {NoUser} : Connection(userId)
    \/ \E s \in SocketIds, receiverId \in Users \cup {NoUser} :
          Typing(s, receiverId)
    \/ \E s \in SocketIds, receiverId \in Users \cup {NoUser} :
          StopTyping(s, receiverId)
    \/ \E s \in SocketIds : Disconnect(s)
    \/ \E t \in TimerIds : Timeout(t)

Spec == Init /\ [][Next]_vars

\* The event loop runs every timer that is due: a pending timer's callback
\* is eventually run unless the timer is cleared first.
LiveSpec == Spec /\ \A t \in TimerIds : WF_vars(Timeout(t))

\* ------------------------------------------------------------- claims
Targeted(e) == e.event \in {"userTyping", "userStoppedTyping"}

EmitIndexes == 1..Len(emits)

\* C1: after any sequence of connections and disconnects, the keys of
\* userSocketMap are exactly the identities whose last registry event is a
\* registration (registered, and not unregistered since).
C1_RegistryKeys ==
    {u \in Users : userSocketMap[u] # NoSocket}
        = {u \in Users : lastOp[u].op = "register"}

\* C1 witness: an identity was unregistered by the disconnect of one of its
\* two connections while another identity stays registered.
C1_Witness ==
    \E u, v \in Users :
        /\ lastOp[u].op = "unregister"
        /\ \E s \in SocketIds :
              sockets[s].status = "open" /\ sockets[s].userId = u
        /\ lastOp[v].op = "register"
        /\ last.kind = "disconnect"

\* C2: a userId that registered again is stored once, under the socket id of
\* its latest registration, and every userTyping / userStoppedTyping emit
\* addressed to a userId goes to the socket id of that userId's latest
\* registration and reaches no other connection.
C2_LastRegistrationWins ==
    /\ \A u \in Users :
          lastOp[u].op = "register" => userSocketMap[u] = lastOp[u].socket
    /\ \A i \in EmitIndexes :
          Targeted(emits[i]) =>
              /\ emits[i].receiverId \in Users
              /\ emits[i].room = lastOp[emits[i].receiverId].socket
              /\ emits[i].to \subseteq {lastOp[emits[i].receiverId].socket}

\* C2 witness: two open connections share a userId and a userTyping that
\* another identity addressed to it was delivered to the later one.
C2_Witness ==
    \E s1, s2 \in SocketIds :
        /\ s1 < s2
        /\ sockets[s1].status = "open" /\ sockets[s2].status = "open"
        /\ sockets[s1].userId \in Users
        /\ sockets[s1].userId = sockets[s2].userId
        /\ userSocketMap[sockets[s1].userId] = s2
        /\ last.kind = "typing"
        /\ last.userId # sockets[s1].userId
        /\ Len(emits) = 1
        /\ emits[1].event = "userTyping"
        /\ emits[1].receiverId = sockets[s1].userId
        /\ emits[1].to = {s2}

\* e is userStoppedTyping{userId: a} addressed to b.
StopTo(e, a, b) ==
    e.event = "userStoppedTyping" /\ e.userId = a /\ e.receiverId = b

\* The step runs the callback of timer t.
Expires(t) ==
    timers[t].state = "pending" /\ last'.kind = "timeout" /\ last'.timer = t

\* A timer that is no longer scheduled is never scheduled or run again.
DoneIsFinal ==
    \A t \in TimerIds : timers[t].state = "done" => timers'[t].state = "done"

\* C3 as stated: when the timer of a signal A -> B fires, B having been in
\* the registry when A sent typing, exactly one userStoppedTyping{userId: A}
\* is emitted to B.
C3_Original ==
    [][\A t \in TimerIds :
          (Expires(t) /\ timers[t].notified) =>
              /\ Len(emits') = 1
              /\ StopTo(emits'[1], timers[t].userId, timers[t].receiverId)]_vars

\* C3 amended: a pending timer ends, and only by its own callback or by a
\* typing, stopTyping or disconnect of its sender; when the callback runs it
\* removes the signal and emits exactly one userStoppedTyping{userId: A} to
\* B's registered handle if B is in the registry at that moment, and nothing
\* otherwise; the timer never runs again.
C3_Expiry ==
    /\ \A t \in TimerIds :
          (timers[t].state = "pending") ~> (timers[t].state = "done")
    /\ [][\A t \in TimerIds :
            (timers[t].state = "pending" /\ timers'[t].state = "done") =>
                LET a == timers[t].userId
                    b == timers[t].receiverId
                IN \/ /\ last'.kind \in {"typing", "stopTyping", "disconnect"}
                      /\ last'.userId = a
                   \/ /\ Expires(t)
                      /\ typingUsers'[a] = NoSignal
                      /\ IF userSocketMap[b] # NoSocket
                         THEN /\ Len(emits') = 1
                              /\ StopTo(emits'[1], a, b)
                              /\ emits'[1].room = userSocketMap[b]
                         ELSE emits' = <<>>]_vars
    /\ [][DoneIsFinal]_vars

\* C3 witness: a timer fired and its userStoppedTyping was delivered to the
\* open connection of another identity.
C3_Witness ==
    /\ last.kind = "timeout"
    /\ Len(emits) = 1
    /\ StopTo(emits[1], last.userId, last.receiverId)
    /\ last.receiverId # last.userId
    /\ emits[1].to = {userSocketMap[last.receiverId]}

\* C4 as stated: a stopTyping of A that finds a signal A -> B stored, B being
\* another identity that is in the registry, emits exactly one
\* userStoppedTyping at that event and leaves the signal's timer cancelled.
C4_Claim ==
    (/\ last.kind = "stopTyping"
     /\ last.found # NoSignal
     /\ last.found.typingTo # last.userId
     /\ userSocketMap[last.found.typingTo] # NoSocket)
        => /\ Len(emits) = 1
           /\ emits[1].event = "userStoppedTyping"
           /\ timers[last.found.timeout].state = "done"

\* C5: a typing of A to C that finds a signal A -> B stored, B # C, cancels
\* B's timer for good, installs the signal A -> C with a new timer, and
\* emits nothing but one userTyping{userId: A}, received only by
\* connections of C; the expiry of a timer emits userStoppedTyping only to
\* the receiverId of its own signal, so B receives none.
C5_Redirect ==
    /\ [][(/\ last'.kind = "typing"
           /\ last'.timer # NoTimer
           /\ last'.found # NoSignal
           /\ last'.found.typingTo # last'.receiverId) =>
              LET a == last'.userId
                  c == last'.receiverId
                  t1 == last'.found.timeout
                  t2 == last'.timer
              IN /\ timers[t1].state = "pending"
                 /\ timers'[t1].state = "done"
                 /\ timers'[t2].state = "pending"
                 /\ timers'[t2].userId = a
                 /\ timers'[t2].receiverId = c
                 /\ typingUsers'[a] = [typingTo |-> c, timeout |-> t2]
                 /\ Len(emits') = IF userSocketMap[c] # NoSocket THEN 1 ELSE 0
                 /\ \A i \in 1..Len(emits') :
                       /\ emits'[i].event = "userTyping"
                       /\ emits'[i].userId = a
                       /\ emits'[i].receiverId = c
                       /\ \A s \in emits'[i].to : sockets[s].userId = c]_vars
    /\ [][\A t \in TimerIds :
            Expires(t) =>
                /\ Len(emits') <= 1
                /\ \A i \in 1..Len(emits') :
                      /\ StopTo(emits'[i], timers[t].userId,
                                timers[t].receiverId)
                      /\ \A s \in emits'[i].to :
                            sockets[s].userId = timers[t].receiverId]_vars
    /\ [][DoneIsFinal]_vars

\* C5 witness: A redirected its signal from B to C while B and C are both
\* registered, and the userTyping was delivered to C.
C5_Witness ==
    /\ last.kind = "typing"
    /\ last.found # NoSignal
    /\ last.found.typingTo # last.receiverId
    /\ last.found.typingTo # last.userId
    /\ last.receiverId # last.userId
    /\ userSocketMap[last.found.typingTo] # NoSocket
    /\ Len(emits) = 1
    /\ emits[1].to = {userSocketMap[last.receiverId]}

\* C6: a disconnect of A that finds a signal A -> B stored removes the
\* signal, cancels its timer for good so that no timer of A stays pending,
\* and, B being in the registry, emits userStoppedTyping{userId: A} to B's
\* registered handle before the getOnlineUsers broadcast.
C6_DisconnectRetracts ==
    /\ [][(last'.kind = "disconnect" /\ last'.found # NoSignal) =>
              LET a == last'.userId
                  b == last'.found.typingTo
                  t == last'.found.timeout
              IN /\ typingUsers'[a] = NoSignal
                 /\ timers'[t].state = "done"
                 /\ \A t2 \in TimerIds :
                       timers'[t2].state = "pending" => timers'[t2].userId # a
                 /\ userSocketMap[b] # NoSocket =>
                       /\ Len(emits') = 2
                       /\ StopTo(emits'[1], a, b)
                       /\ emits'[1].room = userSocketMap[b]]_vars
    /\ [][DoneIsFinal]_vars

\* C6 witness: a disconnect retracted a stored signal and the
\* userStoppedTyping was delivered to the open connection of B.
C6_Witness ==
    /\ last.kind = "disconnect"
    /\ last.found # NoSignal
    /\ last.found.typingTo # last.userId
    /\ Len(emits) = 2
    /\ StopTo(emits[1], last.userId, last.found.typingTo)
    /\ emits[1].to = {userSocketMap[last.found.typingTo]}

\* C7 as stated: the userStoppedTyping of a stopTyping that retracts a signal
\* A -> B is addressed to B, whatever receiverId the payload carries.
C7_Claim ==
    (last.kind = "stopTyping" /\ last.found # NoSignal) =>
        \A i \in EmitIndexes :
            StopTo(emits[i], last.userId, last.found.typingTo)

\* C8 as stated: a typing or stopTyping whose payload has no receiverId
\* changes neither the registry nor the typing state and emits nothing.
C8_Claim ==
    [][(last'.kind \in {"typing", "stopTyping"} /\ last'.receiverId = NoUser)
          => /\ UNCHANGED <<userSocketMap, typingUsers, timers>>
             /\ emits' = <<>>]_vars

\* C9 as stated: a typing naming a receiverId that is not in the registry
\* emits nothing and still installs the signal and its timer; an expiry, a
\* stopTyping or a disconnect that retracts a signal whose recipient (the
\* typingTo of the signal) is not in the registry emits no userStoppedTyping.
C9_Claim ==
    [][/\ (/\ last'.kind = "typing"
           /\ last'.timer # NoTimer
           /\ userSocketMap[last'.receiverId] = NoSocket)
              => /\ emits' = <<>>
                 /\ typingUsers'[last'.userId] =
                        [typingTo |-> last'.receiverId,
                         timeout |-> last'.timer]
                 /\ timers'[last'.timer].state = "pending"
       /\ (/\ last'.kind \in {"timeout", "stopTyping", "disconnect"}
           /\ last'.found # NoSignal
           /\ userSocketMap[last'.found.typingTo] = NoSocket)
              => \A i \in 1..Len(emits') : ~Targeted(emits'[i])]_vars

\* C10: every getOnlineUsers carries the keys of the registry as they are
\* after the handler's registration or unregistration, goes to every open
\* connection, holds the joining userId on a connection and lacks the
\* leaving userId on a disconnect; both handlers emit it, once, last.
C10_OnlineUsersBroadcast ==
    /\ \A i \in EmitIndexes :
          emits[i].event = "getOnlineUsers" =>
              /\ i = Len(emits)
              /\ last.kind \in {"connection", "disconnect"}
              /\ emits[i].ids = {u \in Users : userSocketMap[u] # NoSocket}
              /\ emits[i].to = {s \in SocketIds : sockets[s].status = "open"}
              /\ (last.kind = "connection" /\ last.userId \in Users)
                    => last.userId \in emits[i].ids
              /\ last.kind = "disconnect" => last.userId \notin emits[i].ids
    /\ last.kind \in {"connection", "disconnect"} =>
          /\ Len(emits) >= 1
          /\ emits[Len(emits)].event = "getOnlineUsers"

\* C10 witness: a disconnect broadcast a non-empty list to two open
\* connections, one of them anonymous.
C10_Witness ==
    /\ last.kind = "disconnect"
    /\ last.userId \in Users
    /\ emits[Len(emits)].event = "getOnlineUsers"
    /\ emits[Len(emits)].ids # {}
    /\ Cardinality(emits[Len(emits)].to) = 2
    /\ \E s \in emits[Len(emits)].to : sockets[s].userId = NoUser

\* The number of getOnlineUsers among the emits es of one handler.
OnlineUsersEmits(es) ==
    Cardinality({i \in 1..Len(es) : es[i].event = "getOnlineUsers"})

\* The connections whose status the step changes.
StatusChanged == {s \in SocketIds : sockets'[s].status # sockets[s].status}

\* C11: a connection is established once and disconnected once, each of the
\* two steps emits exactly one getOnlineUsers, and no other step emits one:
\* typing, stopTyping and timer expiry emit no getOnlineUsers and leave the
\* registry as it is.
C11_OnlineUsersOnlyOnLifecycle ==
    [][/\ \A s \in StatusChanged :
             \/ sockets[s].status = "new" /\ sockets'[s].status = "open"
             \/ sockets[s].status = "open" /\ sockets'[s].status = "closed"
       /\ Cardinality(StatusChanged) <= 1
       /\ OnlineUsersEmits(emits') = Cardinality(StatusChanged)
       /\ StatusChanged # {} <=> last'.kind \in {"connection", "disconnect"}
       /\ last'.kind \in {"typing", "stopTyping", "timeout"} =>
             /\ userSocketMap' = userSocketMap
             /\ OnlineUsersEmits(emits') = 0]_vars

\* C11 witness: after a connection was closed, a stopTyping retracted a
\* signal and delivered its userStoppedTyping without any getOnlineUsers.
C11_Witness ==
    /\ last.kind = "stopTyping"
    /\ last.found # NoSignal
    /\ Len(emits) = 1
    /\ emits[1].event = "userStoppedTyping"
    /\ emits[1].to # {}
    /\ \E s \in SocketIds : sockets[s].status = "closed"

\* The open connections whose handshake carried no userId.
Anonymous == {s \in OpenSockets(sockets) : sockets[s].userId = NoUser}

\* C12: a connection without userId is not stored in the registry, its
\* connection step leaves the registry as it is, no userTyping or
\* userStoppedTyping is addressed to it or reaches it, every getOnlineUsers
\* reaches it, and its typing, stopTyping and disconnect events change
\* neither the registry nor the typing state nor any timer.
C12_Anonymous ==
    /\ [](\A s \in Anonymous :
             /\ \A u \in Users : userSocketMap[u] # s
             /\ \A i \in EmitIndexes :
                   IF Targeted(emits[i])
                   THEN emits[i].room # s /\ s \notin emits[i].to
                   ELSE s \in emits[i].to)
    /\ [][(last'.userId = NoUser /\ last'.kind = "connection")
             => userSocketMap' = userSocketMap]_vars
    /\ [][(/\ last'.userId = NoUser
           /\ last'.kind \in {"typing", "stopTyping", "disconnect"})
             => UNCHANGED <<userSocketMap, typingUsers, timers>>]_vars

\* C12 witness: a connection without userId disconnected while a signal is
\* stored; the signal is still there and another connection without userId
\* received the getOnlineUsers of that disconnect.
C12_Witness ==
    /\ last.kind = "disconnect"
    /\ last.userId = NoUser
    /\ \E u \in Users :
          typingUsers[u] # NoSignal /\ userSocketMap[u] # NoSocket
    /\ \E s \in Anonymous : s \in emits[Len(emits)].to

\* C13: a typing of A naming B that is accepted emits, B being in the
\* registry, exactly one userTyping{userId: A}, which reaches the handle
\* registered for B and no other connection (and emits nothing when B is not
\* in the registry); every userStoppedTyping reaches at most one connection,
\* and only the handle that was registered for the identity it was addressed
\* to when the handler looked it up.
C13_FanOut ==
    /\ (last.kind = "typing" /\ last.timer # NoTimer) =>
          IF userSocketMap[last.receiverId] # NoSocket
          THEN /\ Len(emits) = 1
               /\ emits[1].event = "userTyping"
               /\ emits[1].userId = last.userId
               /\ emits[1].to = {userSocketMap[last.receiverId]}
          ELSE emits = <<>>
    /\ \A i \in EmitIndexes :
          emits[i].event = "userStoppedTyping" =>
              /\ Cardinality(emits[i].to) <= 1
              /\ emits[i].to \subseteq {emits[i].room}
              /\ emits[i].room = lastOp[emits[i].receiverId].socket

\* C13 witness: A refreshed its signal to B while B has two open
\* connections; only the handle registered for B received the userTyping.
C13_Witness ==
    /\ last.kind = "typing"
    /\ last.found # NoSignal
    /\ last.found.typingTo = last.receiverId
    /\ last.receiverId # last.userId
    /\ Len(emits) = 1
    /\ emits[1].to = {userSocketMap[last.receiverId]}
    /\ \E s \in OpenSockets(sockets) :
          /\ s \notin emits[1].to
          /\ sockets[s].userId = last.receiverId

\* The step changes neither the registry nor the typing state nor a timer
\* and emits nothing.
NoEffect ==
    /\ UNCHANGED <<userSocketMap, typingUsers, timers>>
    /\ emits' = <<>>

\* C14: a stopTyping of a sender for which no signal is stored has no
\* effect; in particular the second of two consecutive stopTyping events of
\* one sender has none, whatever receiverId the two payloads carry.
C14_StopTypingNoSignal ==
    /\ [][(/\ last'.kind = "stopTyping"
           /\ Signal(typingUsers, last'.userId) = NoSignal) => NoEffect]_vars
    /\ [][(/\ last.kind = "stopTyping"
           /\ last'.kind = "stopTyping"
           /\ last'.userId = last.userId) => NoEffect]_vars

\* C14 witness: after a signal was ended, a registered sender sent a
\* stopTyping that found no signal, while the signal of another sender is
\* stored and its timer pending.
C14_Witness ==
    /\ last.kind = "stopTyping"
    /\ last.userId \in Users
    /\ last.found = NoSignal
    /\ emits = <<>>
    /\ \E t \in TimerIds : timers[t].state = "done"
    /\ \E v \in Users :
          /\ v # last.userId
          /\ typingUsers[v] # NoSignal
          /\ timers[typingUsers[v].timeout].state = "pending"

\* The timers that are scheduled with a callback of sender u.
PendingOf(u) ==
    {t \in TimerIds : timers[t].state = "pending" /\ timers[t].userId = u}

\* C15: a sender has at most one pending timer; it has one exactly when a
\* signal is stored for it, and then it is the timer the signal holds, whose
\* callback closes over the signal's typingTo.  (typingUsers holds at most
\* one signal per sender, being keyed by userId.)
C15_OneSignalOneTimer ==
    /\ \A u \in Users :
          /\ Cardinality(PendingOf(u)) <= 1
          /\ (PendingOf(u) # {}) <=> (typingUsers[u] # NoSignal)
          /\ typingUsers[u] # NoSignal =>
                /\ PendingOf(u) = {typingUsers[u].timeout}
                /\ timers[typingUsers[u].timeout].receiverId
                       = typingUsers[u].typingTo
    /\ \A t \in TimerIds :
          timers[t].state = "pending" => timers[t].userId \in Users

\* C15 witness: two open connections share a userId, a typing of that
\* userId superseded its stored signal, and one timer is done while the
\* other is the pending timer of the stored signal.
C15_Witness ==
    /\ last.kind = "typing"
    /\ last.found # NoSignal
    /\ timers[last.found.timeout].state = "done"
    /\ PendingOf(last.userId) = {last.timer}
    /\ \E s1, s2 \in OpenSockets(sockets) :
          /\ s1 # s2
          /\ sockets[s1].userId = last.userId
          /\ sockets[s2].userId = last.userId

\* The signal instances (each typing installs one, with its own timer) that
\* the step ends.
Ended ==
    {t \in TimerIds : timers[t].state = "pending" /\ timers'[t].state = "done"}

\* The number of userStoppedTyping among the emits es of one handler.
StoppedEmits(es) ==
    Cardinality({i \in 1..Len(es) : es[i].event = "userStoppedTyping"})

\* C16: a step ends at most one signal instance, and an instance that has
\* ended never ends or runs again; an instance is ended by its own callback
\* or by a typing, stopTyping or disconnect of its sender that found it
\* stored; a callback runs only for the instance that is stored and pending;
\* a userStoppedTyping is emitted only by a step that ends an instance, and
\* at most one by that step.
C16_EndedOnce ==
    /\ [][/\ Cardinality(Ended) <= 1
          /\ StoppedEmits(emits') <= Cardinality(Ended)
          /\ \A t \in Ended :
                /\ typingUsers[timers[t].userId].timeout = t
                /\ \/ last'.kind = "timeout" /\ last'.timer = t
                   \/ /\ last'.kind \in {"typing", "stopTyping", "disconnect"}
                      /\ last'.userId = timers[t].userId
                      /\ last'.found.timeout = t
          /\ last'.kind = "timeout" => Ended = {last'.timer}]_vars
    /\ [][DoneIsFinal]_vars

\* C16 witness: the callback of one signal instance ran and emitted its
\* userStoppedTyping after another instance had been cancelled or
\* superseded; no timer is left.
C16_Witness ==
    /\ last.kind = "timeout"
    /\ StoppedEmits(emits) = 1
    /\ emits[1].to # {}
    /\ \A t \in TimerIds : timers[t].state = "done"
    /\ \A u \in Users : typingUsers[u] = NoSignal

\* C17 as stated: every identity with an open connection that registered
\* with it is a key of the registry.
C17_Claim ==
    \A s \in OpenSockets(sockets) :
        sockets[s].userId \in Users =>
            userSocketMap[sockets[s].userId] # NoSocket

\* C18: a handle stored in the registry under u is an open connection that
\* registered as u, and of the connections that registered as u it is the
\* one established last.
C18_HandlesOpenAndLatest ==
    \A u \in Users :
        userSocketMap[u] # NoSocket =>
            /\ userSocketMap[u] \in OpenSockets(sockets)
            /\ sockets[userSocketMap[u]].userId = u
            /\ userSocketMap[u] = lastOp[u].socket
            /\ \A s \in OpenSockets(sockets) :
                  sockets[s].userId = u => s <= userSocketMap[u]

\* C18 witness: an identity connected again while its older connection is
\* open and another connection has been closed; the registry holds the
\* newer handle.
C18_Witness ==
    /\ last.kind = "connection"
    /\ last.userId \in Users
    /\ \E s \in OpenSockets(sockets) :
          /\ sockets[s].userId = last.userId
          /\ s < userSocketMap[last.userId]
    /\ \E s \in SocketIds : sockets[s].status = "closed"

\* C19 as stated: every sender with a stored signal, and every sender a
\* pending timer belongs to, is a key of the registry.
C19_Claim ==
    /\ \A u \in Users :
          typingUsers[u] # NoSignal => userSocketMap[u] # NoSocket
    /\ \A t \in TimerIds :
          timers[t].state = "pending" =>
              userSocketMap[timers[t].userId] # NoSocket

\* The step is a typing of sender u that installs a signal.
TypingOf(u) ==
    last'.kind = "typing" /\ last'.userId = u /\ last'.timer # NoTimer

\* Sender u has no stored signal and no pending timer.
Quiet(u) == typingUsers[u] = NoSignal /\ PendingOf(u) = {}

\* C20: for every sender, if from some point on it installs no further
\* signal, then from some point on it has no stored signal and no pending
\* timer; and whenever a signal is stored, a state without it follows.
C20_SignalsEnd ==
    /\ \A u \in Users : <>[][~TypingOf(u)]_vars => <>[]Quiet(u)
    /\ \A u \in Users : (typingUsers[u] # NoSignal) ~> Quiet(u)

\* C20 witness: the timer of a signal whose recipient is not in the
\* registry fired while the sender stays connected; the sender is left
\* with no signal and no timer.
C20_Witness ==
    /\ last.kind = "timeout"
    /\ last.found # NoSignal
    /\ emits = <<>>
    /\ Quiet(last.userId)
    /\ userSocketMap[last.userId] \in OpenSockets(sockets)

====
